---- MODULE Spec2Model ----
(***************************************************************************)
(* A model of src/src/emulator.py: the Ram byte store, the Bus that        *)
(* delegates to it, and the Cpu's fetch / decode / execute step.           *)
(*                                                                         *)
(* Python integers are unbounded and several of the program's values       *)
(* (Ram.BASE = 0x80000000, every 32-bit instruction word, the stack        *)
(* pointer) do not fit the model checker's machine integers, so a Python   *)
(* int is modelled as an infinite two's-complement bit string:             *)
(*     [s |-> the bit that repeats forever, b |-> the low bits, LSB first] *)
(* kept canonical (b never ends in s).  The operators below are Python's   *)
(* int operators on that representation.                                   *)
(***************************************************************************)
EXTENDS Integers, Sequences, FiniteSets

VARIABLES
    raw,     \* Ram._raw: the bytearray, a sequence of bytes
    pc,      \* Cpu._pc
    regs,    \* Cpu._regs: 32 Python ints
    ctl,     \* where main is: "constructed", "running", "halted", "failed"
    err,     \* the exception the last operation raised, or "none"
    ret,     \* the value the last operation returned (True = 1, False = 0)
    op,      \* history: the last operation and what it decoded
    pre,     \* history: raw, regs and pc as the last operation found them
    nsteps,  \* history: the number of step() calls that returned
    ncalls   \* history: the number of Ram/Bus calls made

vars == <<raw, pc, regs, ctl, err, ret, op, pre, nsteps, ncalls>>

(***************************************************************************)
(* Bounds of the model.                                                    *)
(***************************************************************************)
\* Ram.SIZE is 1024 * 1024 + 1 = 4 * 262144 + 1 bytes in the source; the
\* model keeps the shape 4 * words + 1 with MemWords instruction words.
MemWords == 2
\* Number of Ram/Bus calls a client makes in SpecRam.
MaxCalls == 2

(***************************************************************************)
(* Python int                                                              *)
(***************************************************************************)
Max(a, b) == IF a >= b THEN a ELSE b

RECURSIVE Trim(_, _)
Trim(s, b) ==
    IF b # <<>> /\ b[Len(b)] = s THEN Trim(s, SubSeq(b, 1, Len(b) - 1)) ELSE b

\* the canonical int with repeating bit s and low bits b
MkInt(s, b) == [s |-> s, b |-> Trim(s, b)]

\* bit i (from 0) of x
Bit(x, i) == IF i < Len(x.b) THEN x.b[i + 1] ELSE x.s

\* the n low bits of x as a sequence
LowBits(x, n) == SubSeq([i \in 1..n |-> Bit(x, i - 1)], 1, n)

RECURSIVE NatBits(_)
NatBits(n) == IF n = 0 THEN <<>> ELSE <<n % 2>> \o NatBits(n \div 2)

\* int literal: a natural number n
FromNat(n) == [s |-> 0, b |-> NatBits(n)]

\* ~x
Inv(x) == [s |-> 1 - x.s, b |-> SubSeq([i \in 1..Len(x.b) |-> 1 - x.b[i]], 1, Len(x.b))]

\* int literal: any (small) integer n; -n = ~(n - 1)
FromInt(n) == IF n >= 0 THEN FromNat(n) ELSE Inv(FromNat(-n - 1))

Zero == FromNat(0)

RECURSIVE Pow2(_)
Pow2(n) == IF n = 0 THEN 1 ELSE 2 * Pow2(n - 1)

RECURSIVE BitsNat(_)
BitsNat(b) == IF b = <<>> THEN 0 ELSE b[1] + 2 * BitsNat(Tail(b))

\* the value of x as a machine integer (x short enough to have one)
ToInt(x) == BitsNat(x.b) - x.s * Pow2(Len(x.b))

\* whether ToInt(x) is defined within the checker's integers
IsSmall(x) == Len(x.b) <= 24

\* x & y
And(x, y) ==
    LET n == Max(Len(x.b), Len(y.b))
    IN  MkInt(x.s * y.s, SubSeq([i \in 1..n |-> Bit(x, i - 1) * Bit(y, i - 1)], 1, n))

\* x | y
Or(x, y) ==
    LET n == Max(Len(x.b), Len(y.b))
    IN  MkInt(Max(x.s, y.s), SubSeq([i \in 1..n |-> Max(Bit(x, i - 1), Bit(y, i - 1))], 1, n))

\* x ^ y
Xor(x, y) ==
    LET n == Max(Len(x.b), Len(y.b))
    IN  MkInt((x.s + y.s) % 2, SubSeq([i \in 1..n |-> (Bit(x, i - 1) + Bit(y, i - 1)) % 2], 1, n))

\* x << n, n >= 0
Shl(x, n) == MkInt(x.s, SubSeq([i \in 1..n |-> 0], 1, n) \o x.b)

\* x >> n, n >= 0 (Python's >> is arithmetic: the repeating bit stays)
Shr(x, n) ==
    [s |-> x.s, b |-> IF n >= Len(x.b) THEN <<>> ELSE SubSeq(x.b, n + 1, Len(x.b))]

RECURSIVE AddBits(_, _, _, _, _)
\* the sum's bits i..n-1, with carry c into bit i
AddBits(x, y, i, n, c) ==
    IF i >= n THEN <<>>
    ELSE LET t == Bit(x, i) + Bit(y, i) + c
         IN  <<t % 2>> \o AddBits(x, y, i + 1, n, t \div 2)

\* x + y: an operand of k low bits is a (k+1)-bit two's-complement number,
\* so the sum is a (k+2)-bit one and its top bit is its sign
Add(x, y) ==
    LET n == Max(Len(x.b), Len(y.b)) + 2
        sum == AddBits(x, y, 0, n, 0)
    IN  MkInt(sum[n], sum)

\* x - y = ~(~x + y)
Sub(x, y) == Inv(Add(Inv(x), y))

\* x < y
Lt(x, y) == Sub(x, y).s = 1

(***************************************************************************)
(* class Ram                                                               *)
(***************************************************************************)
SIZE == 4 * MemWords + 1

\* 0x80000000
BASE == Shl(FromNat(1), 31)

\* bytearray(n)
ZeroBytes(n) == SubSeq([i \in 1..n |-> 0], 1, n)

\* mutant: the index is one byte too high
PyIndex_offByOne(r, off, i) ==
    IF ~IsSmall(off) THEN 0
    ELSE LET k == ToInt(off) + i + 1
         IN  IF 0 <= k /\ k < Len(r) THEN k + 1
             ELSE IF -Len(r) <= k /\ k < 0 THEN Len(r) + k + 1
             ELSE 0

\* The position (from 1) in bytearray r that Python's r[off + i] names: an
\* index counts from the end when negative; 0 stands for IndexError.
PyIndex(r, off, i) ==
    IF ~IsSmall(off) THEN 0
    ELSE LET k == ToInt(off) + i
         IN  IF 0 <= k /\ k < Len(r) THEN k + 1
             ELSE IF -Len(r) <= k /\ k < 0 THEN Len(r) + k + 1
             ELSE 0

RECURSIVE Ram_load_loop(_, _, _, _, _)
\* the loop of Ram.load from iteration i on, off being addr - self.BASE
Ram_load_loop(r, off, n, i, result) ==
    IF i >= n THEN [err |-> "none", val |-> result]
    ELSE LET p == PyIndex(r, off, i)
         IN  IF p = 0 THEN [err |-> "IndexError", val |-> Zero]
             ELSE Ram_load_loop(r, off, n, i + 1,
                                Or(result, Shl(FromNat(r[p]), i * 8)))

Ram_load(r, addr, size) ==
    Ram_load_loop(r, Sub(addr, BASE), size \div 8, 0, Zero)

\* mutant: the mask drops the byte's top bit
StoreByte_7bit(value, i) == ToInt(And(Shr(value, i * 8), FromNat(127)))

\* (value >> (i * 8)) & 0xFF
StoreByte(value, i) == ToInt(And(Shr(value, i * 8), FromNat(255)))

RECURSIVE Ram_store_loop(_, _, _, _, _)
\* the loop of Ram.store from iteration i on, off being addr - self.BASE;
\* an IndexError leaves the bytes already written in place
Ram_store_loop(r, off, n, value, i) ==
    IF i >= n THEN [err |-> "none", raw |-> r]
    ELSE LET p == PyIndex(r, off, i)
         IN  IF p = 0 THEN [err |-> "IndexError", raw |-> r]
             ELSE Ram_store_loop([r EXCEPT ![p] = StoreByte(value, i)],
                                 off, n, value, i + 1)

Ram_store(r, addr, size, value) ==
    Ram_store_loop(r, Sub(addr, BASE), size \div 8, value, 0)

\* binfile.read(self.SIZE + 1)
FileRead(file, n) == IF Len(file) <= n THEN file ELSE SubSeq(file, 1, n)

\* mutant: the bound is off by one
ImageFits_offByOne(data) == Len(data) <= SIZE + 1

\* assert len(data) <= self.SIZE
ImageFits(data) == Len(data) <= SIZE

Ram_read_file(r, file) ==
    LET data == FileRead(file, SIZE + 1)
    IN  IF ImageFits(data) THEN [err |-> "none", raw |-> data]
        ELSE [err |-> "AssertionError", raw |-> r]

(***************************************************************************)
(* class Bus                                                               *)
(***************************************************************************)
Bus_load(r, addr, size) == Ram_load(r, addr, size)

Bus_store(r, addr, size, value) == Ram_store(r, addr, size, value)

(***************************************************************************)
(* class Cpu                                                               *)
(***************************************************************************)
OP_LOAD == 3
OP_IMM == 19
OP_STORE == 35
OP_LUI == 55

FUNCT3_ADDI == 0
FUNCT3_SLL == 1
FUNCT3_SLTI == 2
FUNCT3_SLTIU == 3
FUNCT3_XORI == 4
FUNCT3_SRL_SRA == 5
FUNCT3_ORI == 6
FUNCT3_ANDI == 7

FUNCT7_SRLI == 0
FUNCT7_SRAI == 32

REGISTER_SP == 2

\* inst & 0x7F
Cpu_opcode(inst) == ToInt(And(inst, FromNat(127)))

\* (inst >> 12) & 0x7
Cpu_funct3(inst) == ToInt(And(Shr(inst, 12), FromNat(7)))

\* (inst >> 25) & 0x7F
Cpu_funct7(inst) == ToInt(And(Shr(inst, 25), FromNat(127)))

\* (inst >> 7) & 0x1F
Cpu_rd(inst) == ToInt(And(Shr(inst, 7), FromNat(31)))

\* mutant: rs1 is read one bit too low
Cpu_rs1_bit14(inst) == ToInt(And(Shr(inst, 14), FromNat(31)))

\* (inst >> 15) & 0x1F
Cpu_rs1(inst) == ToInt(And(Shr(inst, 15), FromNat(31)))

\* (inst >> 20) & 0x1F
Cpu_rs2(inst) == ToInt(And(Shr(inst, 20), FromNat(31)))

\* mutant: the 12-bit immediate is sign-extended
Cpu_imm_I_signExtended(inst) == MkInt(Bit(inst, 31), LowBits(Shr(inst, 20), 12))

\* ((inst & 0xFFF00000)) >> 20
Cpu_imm_I(inst) == Shr(And(inst, Shl(FromNat(4095), 20)), 20)

\* inst & 0xFFFFF999
Cpu_imm_U(inst) == And(inst, Or(Shl(FromNat(1048575), 12), FromNat(2457)))

\* self._imm_I(inst) & 0x1F
Cpu_shamt(inst) == ToInt(And(Cpu_imm_I(inst), FromNat(31)))

\* 1 if c else 0
Bool(c) == IF c THEN FromNat(1) ELSE Zero

Cpu_exec_ADDI(rg, inst) ==
    [rg EXCEPT ![Cpu_rd(inst)] = Add(rg[Cpu_rs1(inst)], Cpu_imm_I(inst))]

Cpu_exec_SLTI(rg, inst) ==
    [rg EXCEPT ![Cpu_rd(inst)] = Bool(Lt(rg[Cpu_rs1(inst)], Cpu_imm_I(inst)))]

Cpu_exec_SLTIU(rg, inst) ==
    [rg EXCEPT ![Cpu_rd(inst)] = Bool(Lt(rg[Cpu_rs1(inst)], Cpu_imm_I(inst)))]

Cpu_exec_SRAI(rg, inst) ==
    [rg EXCEPT ![Cpu_rd(inst)] = Shr(rg[Cpu_rs1(inst)], ToInt(Cpu_imm_I(inst)))]

Cpu_exec_XORI(rg, inst) ==
    [rg EXCEPT ![Cpu_rd(inst)] = Xor(rg[Cpu_rs1(inst)], Cpu_imm_I(inst))]

Cpu_exec_ORI(rg, inst) ==
    [rg EXCEPT ![Cpu_rd(inst)] = Or(rg[Cpu_rs1(inst)], Cpu_imm_I(inst))]

Cpu_exec_ANDI(rg, inst) ==
    [rg EXCEPT ![Cpu_rd(inst)] = And(rg[Cpu_rs1(inst)], Cpu_imm_I(inst))]

Cpu_exec_SLLI(rg, inst) ==
    [rg EXCEPT ![Cpu_rd(inst)] = Shl(rg[Cpu_rs1(inst)], Cpu_shamt(inst))]

Cpu_exec_SRLI(rg, inst) ==
    [rg EXCEPT ![Cpu_rd(inst)] = Shr(rg[Cpu_rs1(inst)], Cpu_shamt(inst))]

\* mutant: register 0 is not reset
ZeroX0_skipped(rg) == rg

\* self._regs[0] = 0
ZeroX0(rg) == [rg EXCEPT ![0] = Zero]

\* mutant: only OP_IMM reaches the funct3 table
SharedTable_immOnly == {OP_IMM}

\* the opcodes execute routes to the funct3 table
SharedTable == {OP_LOAD, OP_IMM, OP_STORE}

\* What execute(inst) does to the registers rg: the registers it leaves,
\* the exception it raises, and (history) the handler it called.
Cpu_execute(rg, inst) ==
    LET opcode == Cpu_opcode(inst)
        funct3 == Cpu_funct3(inst)
        funct7 == Cpu_funct7(inst)
        r0 == ZeroX0(rg)
        Ran(h, r) == [err |-> "none", regs |-> r, handler |-> h]
    IN  IF opcode \in SharedTable THEN
            IF funct3 = FUNCT3_ADDI THEN Ran("ADDI", Cpu_exec_ADDI(r0, inst))
            ELSE IF funct3 = FUNCT3_SLL THEN Ran("SLLI", Cpu_exec_SLLI(r0, inst))
            ELSE IF funct3 = FUNCT3_SLTI THEN Ran("SLTI", Cpu_exec_SLTI(r0, inst))
            ELSE IF funct3 = FUNCT3_SLTIU THEN Ran("SLTIU", Cpu_exec_SLTIU(r0, inst))
            ELSE IF funct3 = FUNCT3_XORI THEN Ran("XORI", Cpu_exec_XORI(r0, inst))
            ELSE IF funct3 = FUNCT3_SRL_SRA THEN
                IF funct7 = FUNCT7_SRLI THEN Ran("SRLI", Cpu_exec_SRLI(r0, inst))
                ELSE IF funct7 = FUNCT7_SRAI THEN Ran("SRAI", Cpu_exec_SRAI(r0, inst))
                ELSE Ran("none", r0)
            ELSE IF funct3 = FUNCT3_ORI THEN Ran("ORI", Cpu_exec_ORI(r0, inst))
            ELSE IF funct3 = FUNCT3_ANDI THEN Ran("ANDI", Cpu_exec_ANDI(r0, inst))
            ELSE Ran("none", r0)
        ELSE [err |-> "RuntimeError", regs |-> r0, handler |-> "none"]

\* Cpu.fetch
Cpu_fetch(r, p) == Bus_load(r, p, 32)

\* mutant: the pc counts words, not bytes
AdvancePc_byWord(p) == Add(p, FromNat(1))

\* mutant: the pc is not advanced
AdvancePc_stuck(p) == p

\* self._pc += 4
AdvancePc(p) == Add(p, FromNat(4))

\* mutant: the halt test is inverted
StepReturn_inverted(p) == Bool(p = Zero)

\* step's return value, the pc being p: False if self._pc == 0, else True
StepReturn(p) == Bool(p # Zero)

\* Cpu.__init__: self._regs
InitRegs ==
    [i \in 0..31 |-> IF i = REGISTER_SP THEN Add(BASE, FromNat(SIZE)) ELSE Zero]

(***************************************************************************)
(* History variables' values                                               *)
(***************************************************************************)
\* no fields decoded
NoDec ==
    [opcode |-> 0, rd |-> 0, funct3 |-> 0, rs1 |-> 0, rs2 |-> 0, funct7 |-> 0,
     imm_U |-> Zero]

NoOp ==
    [name |-> "init", inst |-> Zero, handler |-> "none", file |-> <<>>,
     addr |-> Zero, size |-> 0, value |-> Zero, dec |-> NoDec]

Snapshot == [raw |-> raw, regs |-> regs, pc |-> pc]

(***************************************************************************)
(* main: Ram(), Bus(ram), Cpu(bus); ram.read_file(path); while cpu.step()  *)
(***************************************************************************)
Init ==
    /\ raw = ZeroBytes(SIZE)
    /\ pc = BASE
    /\ regs = InitRegs
    /\ ctl = "constructed"
    /\ err = "none"
    /\ ret = Zero
    /\ op = NoOp
    /\ pre = [raw |-> ZeroBytes(SIZE), regs |-> InitRegs, pc |-> BASE]
    /\ nsteps = 0
    /\ ncalls = 0

\* ram.read_file(path), the file at path holding the bytes `file`
ReadFile(file) ==
    /\ ctl = "constructed"
    /\ LET r == Ram_read_file(raw, file)
       IN  /\ raw' = r.raw
           /\ err' = r.err
           /\ ctl' = IF r.err = "none" THEN "running" ELSE "failed"
    /\ ret' = Zero
    /\ op' = [NoOp EXCEPT !.name = "read_file", !.file = file]
    /\ pre' = Snapshot
    /\ UNCHANGED <<pc, regs, nsteps, ncalls>>

\* one cpu.step() of the loop (f: what fetch returns or raises; e: what
\* execute does; p: the advanced pc)
Step ==
    /\ ctl = "running"
    /\ pre' = Snapshot
    /\ \E f \in {Cpu_fetch(raw, pc)} :
           IF f.err # "none" THEN
               /\ err' = f.err
               /\ ctl' = "failed"
               /\ ret' = Zero
               /\ op' = [NoOp EXCEPT !.name = "step"]
               /\ UNCHANGED <<pc, regs, nsteps>>
           ELSE
               \E e \in {Cpu_execute(regs, f.val)}, p \in {AdvancePc(pc)} :
                   /\ pc' = p
                   /\ regs' = e.regs
                   /\ err' = e.err
                   /\ op' = [NoOp EXCEPT !.name = "step", !.inst = f.val,
                                         !.handler = e.handler]
                   /\ IF e.err # "none" THEN
                          /\ ctl' = "failed"
                          /\ ret' = Zero
                          /\ UNCHANGED nsteps
                      ELSE
                          /\ ctl' = IF StepReturn(p) = Zero THEN "halted"
                                    ELSE "running"
                          /\ ret' = StepReturn(p)
                          /\ nsteps' = nsteps + 1
    /\ UNCHANGED <<raw, ncalls>>

(***************************************************************************)
(* Inputs: binary images                                                   *)
(***************************************************************************)
\* The four little-endian bytes of the I-type word with these fields
\* (imm is the 12-bit field inst[31:20]).
Enc(opcode, rd, funct3, rs1, imm) ==
    << opcode + (rd % 2) * 128,
       (rd \div 2) + funct3 * 16 + (rs1 % 2) * 128,
       (rs1 \div 2) + (imm % 16) * 16,
       imm \div 16 >>

Words ==
    { Enc(OP_IMM, 0, FUNCT3_ADDI, 0, 1),          \* addi  x0, x0, 1
      Enc(OP_IMM, 1, FUNCT3_ADDI, 0, 8),          \* addi  x1, x0, 8
      Enc(OP_IMM, 1, FUNCT3_ADDI, 1, 4095),       \* addi  x1, x1, -1
      Enc(OP_IMM, 1, FUNCT3_SLTI, 2, 4095),       \* slti  x1, x2, -1
      Enc(OP_IMM, 1, FUNCT3_SLTIU, 2, 4095),      \* sltiu x1, x2, -1
      Enc(OP_IMM, 1, FUNCT3_XORI, 2, 4095),       \* xori  x1, x2, -1
      Enc(OP_IMM, 1, FUNCT3_ORI, 1, 240),         \* ori   x1, x1, 0xF0
      Enc(OP_IMM, 1, FUNCT3_ANDI, 2, 15),         \* andi  x1, x2, 0xF
      Enc(OP_IMM, 1, FUNCT3_SLL, 2, 31),          \* slli  x1, x2, 31
      Enc(OP_IMM, 1, FUNCT3_SRL_SRA, 2, 4),       \* srli  x1, x2, 4
      Enc(OP_IMM, 1, FUNCT3_SRL_SRA, 1, 1025),    \* srai  x1, x1, 1
      Enc(OP_IMM, 1, FUNCT3_SRL_SRA, 2, 33),      \* funct7 = 1: no such shift
      Enc(OP_LOAD, 1, FUNCT3_ADDI, 2, 4),         \* lb    x1, 4(x2)
      Enc(OP_STORE, 1, FUNCT3_SLTI, 2, 0),        \* sw    x0, 1(x2)
      Enc(OP_LUI, 1, 0, 0, 0) }                   \* lui   x1, 0

RECURSIVE Programs(_)
\* the byte sequences of n words
Programs(n) ==
    IF n = 0 THEN {<<>>}
    ELSE {w \o q : w \in Words, q \in Programs(n - 1)}

\* a trailing partial word
Tails == {<<>>, <<19>>, <<19, 0>>}

\* The files main is run on: up to MemWords whole words and a partial one,
\* so lengths run from 0 to SIZE + 1 (one byte too many).
Files == UNION {{q \o t : q \in Programs(n), t \in Tails} : n \in 0..MemWords}

\* main's ram.read_file(path), on any of the files
Main_read_file ==
    /\ ctl = "constructed"
    /\ \E file \in Files : ReadFile(file)

Next ==
    \/ Main_read_file
    \/ Step

Spec == Init /\ [][Next]_vars

\* main runs to its end: the interpreter never stops between two statements.
\* This is WF_vars(Next) written without ENABLED: a statement of main can run
\* exactly while ctl is "constructed" or "running", and under Spec every step
\* that changes vars is a Next step.
SpecFair ==
    Spec /\ ([]<><<TRUE>>_vars \/ <>[](ctl \notin {"constructed", "running"}))

(***************************************************************************)
(* A client of the memory alone: Ram(), Bus(ram), then any MaxCalls calls  *)
(* of read_file, Bus.store and Bus.load.  An exception is raised to the    *)
(* client, which may go on calling.                                        *)
(***************************************************************************)
\* a file of n bytes, byte k (from 0) being 17 * (k + 1) mod 256
PatternFile(n) == SubSeq([k \in 1..n |-> (17 * k) % 256], 1, n)

RamFiles == {PatternFile(n) : n \in {3, SIZE, SIZE + 1, SIZE + 2}}

\* addresses around both ends of the memory, and address 0
RamAddrs ==
    {Add(BASE, FromInt(k)) : k \in {-1, 0, SIZE - 4, SIZE - 1}} \cup {Zero}

Widths == {8, 16, 32, 64}

\* -2; 0x0123456789ABCDEF0123 (wider than 64 bits)
RamValues ==
    { FromInt(-2),
      Or(Shl(FromNat(74565), 60),
         Or(Shl(FromNat(6636321), 36),
            Or(Shl(FromNat(13426191), 12), FromNat(291)))) }

Ram_ReadFile(file) ==
    /\ ncalls < MaxCalls
    /\ LET r == Ram_read_file(raw, file)
       IN  /\ raw' = r.raw
           /\ err' = r.err
    /\ ret' = Zero
    /\ op' = [NoOp EXCEPT !.name = "read_file", !.file = file]
    /\ pre' = Snapshot
    /\ ncalls' = ncalls + 1
    /\ UNCHANGED <<pc, regs, ctl, nsteps>>

Store(addr, size, value) ==
    /\ ncalls < MaxCalls
    /\ \E r \in {Bus_store(raw, addr, size, value)} :
           /\ raw' = r.raw
           /\ err' = r.err
    /\ ret' = Zero
    /\ op' = [NoOp EXCEPT !.name = "store", !.addr = addr, !.size = size,
                          !.value = value]
    /\ pre' = Snapshot
    /\ ncalls' = ncalls + 1
    /\ UNCHANGED <<pc, regs, ctl, nsteps>>

Load(addr, size) ==
    /\ ncalls < MaxCalls
    /\ \E r \in {Bus_load(raw, addr, size)} :
           /\ ret' = r.val
           /\ err' = r.err
    /\ op' = [NoOp EXCEPT !.name = "load", !.addr = addr, !.size = size]
    /\ pre' = Snapshot
    /\ ncalls' = ncalls + 1
    /\ UNCHANGED <<raw, pc, regs, ctl, nsteps>>

NextRam ==
    \/ \E file \in RamFiles : Ram_ReadFile(file)
    \/ \E addr \in RamAddrs, size \in Widths, value \in RamValues :
           Store(addr, size, value)
    \/ \E addr \in RamAddrs, size \in Widths : Load(addr, size)

SpecRam == Init /\ [][NextRam]_vars

(***************************************************************************)
(* The decoders alone: the field extraction of Cpu.execute, the static     *)
(* methods _rd, _rs1, _rs2 and _imm_U, each applied to a 32-bit word.      *)
(***************************************************************************)
\* the word whose little-endian bytes are w
WordOf(w) ==
    Or(FromNat(w[1]),
       Or(Shl(FromNat(w[2]), 8), Or(Shl(FromNat(w[3]), 16), Shl(FromNat(w[4]), 24))))

\* every word with one bit set, every word of bytes 0x00 / 0x5A / 0xFF, and
\* the instruction words of the images
DecodeWords ==
    {Shl(FromNat(1), k) : k \in 0..31}
        \cup {WordOf(<<a, b, c, d>>) : a, b, c, d \in {0, 90, 255}}
        \cup {WordOf(w) : w \in Words}

InitDecode ==
    /\ raw = ZeroBytes(SIZE)
    /\ pc = BASE
    /\ regs = InitRegs
    /\ ctl = "constructed"
    /\ err = "none"
    /\ ret = Zero
    /\ \E inst \in DecodeWords : op = [NoOp EXCEPT !.name = "word", !.inst = inst]
    /\ pre = [raw |-> ZeroBytes(SIZE), regs |-> InitRegs, pc |-> BASE]
    /\ nsteps = 0
    /\ ncalls = 0

Decode ==
    /\ op.name = "word"
    /\ op' = [op EXCEPT !.name = "decode",
                        !.dec = [opcode |-> Cpu_opcode(op.inst),
                                 rd |-> Cpu_rd(op.inst),
                                 funct3 |-> Cpu_funct3(op.inst),
                                 rs1 |-> Cpu_rs1(op.inst),
                                 rs2 |-> Cpu_rs2(op.inst),
                                 funct7 |-> Cpu_funct7(op.inst),
                                 imm_U |-> Cpu_imm_U(op.inst)]]
    /\ UNCHANGED <<raw, pc, regs, ctl, err, ret, pre, nsteps, ncalls>>

NextDecode == Decode

SpecDecode == InitDecode /\ [][NextDecode]_vars

(***************************************************************************)
(* Properties                                                              *)
(***************************************************************************)
\* the last operation was a step() that returned
StepReturned == op.name = "step" /\ err = "none"

\* the last operation was a step() whose execute called a handler
HandlerRan == op.name = "step" /\ op.handler # "none"

\* the value the last step's handler read from register rs1, were register
\* 0 to read 0
Operand ==
    IF Cpu_rs1(op.inst) = 0 THEN Zero ELSE pre.regs[Cpu_rs1(op.inst)]

\* inst[31:20] as a 12-bit two's-complement number
Sext12(inst) == MkInt(Bit(inst, 31), LowBits(Shr(inst, 20), 12))

\* v mod 2^w
Mod2(v, w) == MkInt(0, LowBits(v, w))

\* the w/8 bytes at addr lie inside [BASE, BASE + Len(r))
InRange(r, addr, w) ==
    LET off == Sub(addr, BASE)
    IN  off.s = 0 /\ IsSmall(off) /\ ToInt(off) + (w \div 8) <= Len(r)

\* C1: after every step() that returns, register 0 reads 0.
C1_X0ZeroAfterStep == StepReturned => regs[0] = Zero

\* what each handler computes from a source operand of 0
FromZero(h, inst) ==
    LET imm == Cpu_imm_I(inst)
    IN  CASE h = "ADDI" -> imm
          [] h \in {"SLTI", "SLTIU"} -> Bool(Lt(Zero, imm))
          [] h \in {"XORI", "ORI"} -> imm
          [] OTHER -> Zero

\* C2: a handler dispatched on an instruction with rs1 = 0 computes from
\* operand 0, whatever the instruction before left in register 0.
C2_X0ReadsZero ==
    (HandlerRan /\ Cpu_rs1(op.inst) = 0)
        => regs[Cpu_rd(op.inst)] = FromZero(op.handler, op.inst)

C2_Witness ==
    HandlerRan /\ Cpu_rs1(op.inst) = 0 /\ pre.regs[0] # Zero

\* C3: every step() that returns has run exactly one handler (a word with
\* no handler raises instead).
C3_NoSilentNoOp == StepReturned => op.handler # "none"

\* C4: store(addr, w, v) on an in-range byte range succeeds, and load(addr,
\* w) then returns v mod 2^w.
C4_RoundTrip ==
    (op.name = "store" /\ InRange(pre.raw, op.addr, op.size))
        => /\ err = "none"
           /\ Bus_load(raw, op.addr, op.size)
                  = [err |-> "none", val |-> Mod2(op.value, op.size)]

C4_Witness ==
    /\ op.name = "store"
    /\ InRange(pre.raw, op.addr, op.size)
    /\ op.size = 64
    /\ op.value.s = 1

\* C5: read_file of more than SIZE bytes raises and leaves every byte of
\* memory as it was; a file of exactly SIZE bytes is accepted.
C5_ImageTooLarge ==
    op.name = "read_file"
        => /\ Len(op.file) > SIZE => (err = "AssertionError" /\ raw = pre.raw)
           /\ Len(op.file) = SIZE => (err = "none" /\ raw = op.file)

C5_Witness ==
    /\ op.name = "read_file"
    /\ Len(op.file) > SIZE
    /\ err = "AssertionError"
    /\ pre.raw # ZeroBytes(SIZE)

\* C6: after a successful read_file of n bytes every offset k < SIZE is
\* readable: image byte k for k < n, and 0 for n <= k < SIZE.
C6_FixedCapacity ==
    (op.name = "read_file" /\ err = "none")
        => \A k \in 0..(SIZE - 1) :
               Bus_load(raw, Add(BASE, FromNat(k)), 8)
                   = [err |-> "none",
                      val |-> IF k < Len(op.file) THEN FromNat(op.file[k + 1])
                              ELSE Zero]

\* C7: PC is a multiple of 4 in every state, and BASE + 4k after k steps
\* that returned (a step whose execute raised has advanced it once more).
C7_PcStride ==
    /\ Bit(pc, 0) = 0
    /\ Bit(pc, 1) = 0
    /\ err # "RuntimeError" => pc = Add(BASE, FromNat(4 * nsteps))
    /\ err = "RuntimeError" => pc = Add(BASE, FromNat(4 * (nsteps + 1)))

C7_Witness == ctl = "running" /\ nsteps >= 2

\* C8: ADDI writes rd = rs1 + the sign-extended 12-bit immediate.
C8_AddiSignExtended ==
    (HandlerRan /\ op.handler = "ADDI")
        => regs[Cpu_rd(op.inst)] = Add(Operand, Sext12(op.inst))

\* C9: SLTIU writes 1 exactly when rs1 mod 2^32 is below the sign-extended
\* immediate mod 2^32, else 0.
C9_SltiuUnsigned ==
    (HandlerRan /\ op.handler = "SLTIU")
        => regs[Cpu_rd(op.inst)]
               = Bool(Lt(Mod2(Operand, 32), Mod2(Sext12(op.inst), 32)))

\* C10: SRAI writes rd = floor(rs1 / 2^shamt), shamt being inst[24:20].
C10_SraiByShamt ==
    (HandlerRan /\ op.handler = "SRAI")
        => regs[Cpu_rd(op.inst)] = Shr(Operand, Cpu_rs2(op.inst))

\* bits hi..lo of inst, as a number
Slice(inst, hi, lo) == BitsNat(SubSeq(LowBits(inst, 32), lo + 1, hi + 1))

\* C11: the six fields are the canonical bit ranges of the word, and the
\* word is recovered from them.
C11_FieldPositions ==
    op.name = "decode"
        => /\ op.dec.opcode = Slice(op.inst, 6, 0)
           /\ op.dec.rd = Slice(op.inst, 11, 7)
           /\ op.dec.funct3 = Slice(op.inst, 14, 12)
           /\ op.dec.rs1 = Slice(op.inst, 19, 15)
           /\ op.dec.rs2 = Slice(op.inst, 24, 20)
           /\ op.dec.funct7 = Slice(op.inst, 31, 25)
           /\ op.inst =
                  Or(FromNat(op.dec.opcode),
                  Or(Shl(FromNat(op.dec.rd), 7),
                  Or(Shl(FromNat(op.dec.funct3), 12),
                  Or(Shl(FromNat(op.dec.rs1), 15),
                  Or(Shl(FromNat(op.dec.rs2), 20),
                     Shl(FromNat(op.dec.funct7), 25))))))

C11_Witness ==
    /\ op.name = "decode"
    /\ op.dec.opcode = 90
    /\ op.dec.rs1 = 31
    /\ op.dec.funct7 = 45

\* C16: the U-type immediate is the word with its low 12 bits cleared.
C16_ImmUClearsLow12 ==
    op.name = "decode"
        => op.dec.imm_U = MkInt(0, ZeroBytes(12) \o SubSeq(LowBits(op.inst, 32), 13, 32))

\* C12: every register holds a 32-bit signed value, in [-2^31, 2^31 - 1].
C12_Regs32Bit == \A i \in 0..31 : Len(regs[i].b) <= 31

\* C13: a step() that returns returns True exactly when PC is not 0, and PC
\* is never 0: the loop is never told to halt.
C13_NeverHalts ==
    /\ pc # Zero
    /\ ctl # "halted"
    /\ StepReturned => (ret = FromNat(1) /\ ctl = "running")

C13_Witness == StepReturned /\ nsteps >= 2

\* C14: a load or store whose byte range is not inside [BASE, BASE +
\* capacity) fails and leaves every byte of memory unchanged.
C14_OutOfRangeFaults ==
    (op.name \in {"load", "store"} /\ ~InRange(pre.raw, op.addr, op.size))
        => (err # "none" /\ raw = pre.raw)

\* inst with its opcode field replaced by opcode
WithOpcode(inst, opcode) ==
    Or(Shl(Shr(inst, 7), 7), FromNat(opcode))

\* C15: a word with opcode LOAD or STORE changes the registers exactly as
\* the same word with opcode IMM does, and no step changes memory.
C15_SharedTable ==
    /\ op.name = "step" => raw = pre.raw
    /\ (op.name = "step" /\ Cpu_opcode(op.inst) \in {OP_LOAD, OP_STORE})
           => LET e == Cpu_execute(pre.regs, WithOpcode(op.inst, OP_IMM))
              IN  /\ e.err = "none"
                  /\ err = "none"
                  /\ regs = e.regs

C15_Witness ==
    /\ op.name = "step"
    /\ Cpu_opcode(op.inst) = OP_LOAD
    /\ regs # pre.regs

\* bits 8i+7..8i of v, as a number
ByteOf(v, i) == BitsNat(SubSeq(LowBits(v, 8 * i + 8), 8 * i + 1, 8 * i + 8))

\* C17: an in-range store writes exactly its w/8 bytes, little-endian, and
\* leaves every other byte and the capacity as they were; a load changes
\* nothing.
C17_StoreFrame ==
    /\ op.name = "load" => raw = pre.raw
    /\ (op.name = "store" /\ InRange(pre.raw, op.addr, op.size))
           => LET off == ToInt(Sub(op.addr, BASE))
              IN  /\ Len(raw) = Len(pre.raw)
                  /\ \A k \in 0..(Len(raw) - 1) :
                         raw[k + 1] =
                             IF off <= k /\ k < off + (op.size \div 8)
                             THEN ByteOf(op.value, k - off)
                             ELSE pre.raw[k + 1]

C17_Witness ==
    /\ op.name = "store"
    /\ InRange(pre.raw, op.addr, op.size)
    /\ op.size = 32
    /\ pre.raw # ZeroBytes(Len(pre.raw))
    /\ Sub(op.addr, BASE) # Zero

\* the loop of main has ended by an exception
LoopFaulted == ctl = "failed" /\ err \in {"IndexError", "RuntimeError", "AssertionError"}

\* once the image of n = Len(raw) bytes is loaded, at most ceil(n / 4)
\* steps have returned, and none has returned False
LoopBound ==
    /\ ctl # "halted"
    /\ (ctl = "running" \/ op.name = "step") => nsteps <= (Len(raw) + 3) \div 4
    /\ (ctl = "failed" /\ op.name = "step") => err \in {"IndexError", "RuntimeError"}

\* C18: the loop ends, by a fault, after at most ceil(n / 4) steps that
\* returned; step() never returns False.
C18_LoopTerminates == []LoopBound /\ <>[]LoopFaulted

C18_Witness == ctl = "failed" /\ op.name = "step" /\ nsteps = (Len(raw) + 3) \div 4 /\ nsteps >= 2

\* C19: a step() that raises the unknown-instruction error has advanced PC
\* by 4 and reset register 0; registers 1..31 and memory are as before it.
C19_FailedStepFrame ==
    (op.name = "step" /\ err = "RuntimeError")
        => /\ pc = Add(pre.pc, FromNat(4))
           /\ regs[0] = Zero
           /\ \A i \in 1..31 : regs[i] = pre.regs[i]
           /\ raw = pre.raw

C19_Witness ==
    /\ op.name = "step"
    /\ err = "RuntimeError"
    /\ pre.regs[0] # Zero

\* v shifted right by d places with zeros entering at the top
ZeroFillShr(v, d) == MkInt(0, SubSeq(v.b, d + 1, Len(v.b)))

\* the distance the last step's shift handler shifted by
ShiftDistance ==
    IF op.handler = "SRAI" THEN ToInt(Cpu_imm_I(op.inst)) ELSE Cpu_shamt(op.inst)

\* C20: no register is ever negative, so SLTI, SRAI and SRLI read a
\* non-negative operand, and a right shift gives the same result whether
\* the sign or zeros enter at the top.
C20_RegsNonNegative ==
    /\ \A i \in 0..31 : regs[i].s = 0
    /\ (HandlerRan /\ op.handler \in {"SLTI", "SRAI", "SRLI"}) => Operand.s = 0
    /\ (HandlerRan /\ op.handler \in {"SRAI", "SRLI"})
           => /\ regs[Cpu_rd(op.inst)] = Shr(Operand, ShiftDistance)
              /\ regs[Cpu_rd(op.inst)] = ZeroFillShr(Operand, ShiftDistance)

C20_Witness ==
    /\ HandlerRan
    /\ op.handler = "SRLI"
    /\ regs[Cpu_rd(op.inst)] # Zero
    /\ regs[Cpu_rd(op.inst)] # Operand

====
